---- MODULE Spec2Model ----
(***************************************************************************)
(* A model of query_epo (src/main.py): the response envelope parser        *)
(* parse_response and the authenticate / authenticate / query workflow of  *)
(* main, with its closures run, get_token and list_query_results.          *)
(*                                                                         *)
(* Text is modelled character by character: a Python str is a sequence of  *)
(* one-character strings, so index, split, strip, int and the JSON decoder *)
(* are computed the way the interpreter computes them.                     *)
(***************************************************************************)
EXTENDS Integers, Sequences, FiniteSets, TLC

VARIABLES
    parts,      \* how the response text under parse was put together (oracle side)
    text,       \* response.text handed to parse_response
    outcome,    \* what parse_response did with it
    ppc,        \* "ready" before the call of parse_response, "parsed" after
    pc,         \* position of main: "auth1", "auth2", "query", "done"
    query_id,   \* argument of main
    token,      \* main's local `token`, read by the closure run
    calls,      \* every session.get issued so far, with what came of it
    log,        \* lines printed so far
    ret,        \* how main (or the one call of run) ended
    replies,    \* what session.get did with each request, in order
    inv         \* the arguments of a call of run made on its own

vars == <<parts, text, outcome, ppc, pc, query_id, token, calls, log, ret, replies, inv>>
parseVars == <<parts, text, outcome, ppc>>
mainVars == <<pc, query_id, token, calls, log, ret, replies, inv>>

(***************************************************************************)
(* Bounds of the input space.                                              *)
(***************************************************************************)
MaxHeadFrags == 3   \* fragments in the status line (the text before ':')
MaxBodyFrags == 3   \* fragments in a free-form body
MaxItems == 2       \* items of a generated JSON list / members of a dict
MaxArgs == 2        \* positional arguments of a call of run

(***************************************************************************)
(* Python str helpers.                                                     *)
(***************************************************************************)
Min(S) == CHOOSE x \in S : \A y \in S : x <= y
Max(S) == CHOOSE x \in S : \A y \in S : x >= y

RECURSIVE Concat(_)
Concat(ss) == IF ss = <<>> THEN <<>> ELSE Head(ss) \o Concat(Tail(ss))

\* what str.strip() and int() treat as white space, among the characters used
Whitespace == {" ", "\t", "\n", "\r"}
Digits == {"0", "1", "2", "3", "4", "5", "6", "7", "8", "9"}

\* s[a:b] of Python with 1-based inclusive bounds; empty when a > b
Slice(s, a, b) == IF a > b THEN <<>> ELSE SubSeq(s, a, b)

\* str.index(c): the first position of c, 0 standing for ValueError
index(s, c) ==
    LET hits == {i \in 1..Len(s) : s[i] = c}
    IN  IF hits = {} THEN 0 ELSE Min(hits)

\* str.split(' '): cut at every single space, empty tokens kept
RECURSIVE split(_)
split(s) ==
    LET i == index(s, " ")
    IN  IF i = 0 THEN <<s>>
        ELSE <<Slice(s, 1, i - 1)>> \o split(Slice(s, i + 1, Len(s)))

\* str.strip()
strip(s) ==
    LET keep == {i \in 1..Len(s) : s[i] \notin Whitespace}
    IN  IF keep = {} THEN <<>> ELSE SubSeq(s, Min(keep), Max(keep))

DigitVal(c) ==
    CASE c = "0" -> 0 [] c = "1" -> 1 [] c = "2" -> 2 [] c = "3" -> 3
      [] c = "4" -> 4 [] c = "5" -> 5 [] c = "6" -> 6 [] c = "7" -> 7
      [] c = "8" -> 8 [] c = "9" -> 9

RECURSIVE DigitsVal(_)
DigitsVal(ds) ==
    IF ds = <<>> THEN 0
    ELSE 10 * DigitsVal(SubSeq(ds, 1, Len(ds) - 1)) + DigitVal(ds[Len(ds)])

AllDigits(s) == Len(s) >= 1 /\ \A i \in 1..Len(s) : s[i] \in Digits

\* int that loses the sign
int_unsigned(s) ==
    LET t == strip(s)
        signed == Len(t) >= 1 /\ t[1] \in {"-", "+"}
        ds == IF signed THEN Tail(t) ELSE t
    IN  IF AllDigits(ds) THEN [ok |-> TRUE, n |-> DigitsVal(ds)] ELSE [ok |-> FALSE, n |-> 0]

\* int(s): surrounding white space dropped, an optional sign, then digits.
\* ok = FALSE stands for ValueError.
int(s) ==
    LET t == strip(s)
        signed == Len(t) >= 1 /\ t[1] \in {"-", "+"}
        ds == IF signed THEN Tail(t) ELSE t
    IN  IF AllDigits(ds)
        THEN [ok |-> TRUE,
              n |-> IF signed /\ t[1] = "-" THEN 0 - DigitsVal(ds) ELSE DigitsVal(ds)]
        ELSE [ok |-> FALSE, n |-> 0]

(***************************************************************************)
(* Python values as the JSON decoder builds them.  Every value has the     *)
(* same record shape so that any two can be compared.                      *)
(***************************************************************************)
PyVal(k, n, s, keys, items) == [k |-> k, n |-> n, s |-> s, keys |-> keys, items |-> items]
None == PyVal("None", 0, <<>>, <<>>, <<>>)
PyBool(b) == PyVal("bool", IF b THEN 1 ELSE 0, <<>>, <<>>, <<>>)
PyInt(n) == PyVal("int", n, <<>>, <<>>, <<>>)
PyFloat(name) == PyVal("float", 0, name, <<>>, <<>>)   \* nan, inf, -inf
PyStr(s) == PyVal("str", 0, s, <<>>, <<>>)
PyList(items) == PyVal("list", 0, <<>>, <<>>, items)
PyDict(keys, items) == PyVal("dict", 0, <<>>, keys, items)

\* d[key] = v on a dict: a repeated key keeps its place and takes the new value
DictSet(d, key, v) ==
    LET at == {i \in 1..Len(d.keys) : d.keys[i] = key}
    IN  IF at = {} THEN PyDict(Append(d.keys, key), Append(d.items, v))
        ELSE PyDict(d.keys, [d.items EXCEPT ![Min(at)] = v])

(***************************************************************************)
(* json.loads, as the standard decoder scans a str.  The input alphabet    *)
(* has no backslash, no '.', and no 'e' or 'E' directly after a digit, so  *)
(* string escapes and the fraction / exponent part of a number never       *)
(* arise; a number is an integer literal.                                  *)
(***************************************************************************)
JSONWhitespace == {" ", "\t", "\n", "\r"}
ControlChars == {"\t", "\n", "\r"}

Fail == [ok |-> FALSE, v |-> None, end |-> 0]
Got(v, end) == [ok |-> TRUE, v |-> v, end |-> end]

\* s[i] or "" past the end, as s[i:i+1] reads it
At(s, i) == IF i >= 1 /\ i <= Len(s) THEN s[i] ELSE ""

StartsWith(s, i, lit) ==
    i + Len(lit) - 1 <= Len(s) /\ SubSeq(s, i, i + Len(lit) - 1) = lit

\* WHITESPACE.match(s, i).end()
SkipWS(s, i) ==
    LET stop == {j \in i..Len(s) : s[j] \notin JSONWhitespace}
    IN  IF stop = {} THEN Max({i, Len(s) + 1}) ELSE Min(stop)

\* scanstring(s, i) with i just past the opening quote (strict mode)
scanstring(s, i) ==
    LET stop == {j \in i..Len(s) : s[j] = "\"" \/ s[j] \in ControlChars}
    IN  IF stop = {} THEN Fail
        ELSE IF s[Min(stop)] = "\"" THEN Got(PyStr(Slice(s, i, Min(stop) - 1)), Min(stop) + 1)
        ELSE Fail

\* NUMBER_RE.match(s, i): -?(0|[1-9][0-9]*)
match_number(s, i) ==
    LET d0 == IF At(s, i) = "-" THEN i + 1 ELSE i
        stop == {j \in d0..Len(s) : s[j] \notin Digits}
        dend == IF stop = {} THEN Len(s) + 1 ELSE Min(stop)
        last == IF At(s, d0) = "0" THEN d0 + 1 ELSE dend
    IN  IF At(s, d0) \notin Digits THEN Fail
        ELSE Got(PyInt(IF d0 > i THEN 0 - DigitsVal(SubSeq(s, d0, last - 1))
                                 ELSE DigitsVal(SubSeq(s, d0, last - 1))), last)

RECURSIVE scan_once(_, _), JSONArrayItems(_, _, _), JSONObjectPairs(_, _, _)

\* JSONArray after '[': s[end] starts the next item, acc holds the items so far
JSONArrayItems(s, end, acc) ==
    LET item == scan_once(s, end)
        e1 == SkipWS(s, item.end)
        nextchar == At(s, e1)
    IN  IF ~item.ok THEN Fail
        ELSE IF nextchar = "]" THEN Got(PyList(Append(acc, item.v)), e1 + 1)
        ELSE IF nextchar # "," THEN Fail
        ELSE JSONArrayItems(s, SkipWS(s, e1 + 1), Append(acc, item.v))

JSONArray(s, end) ==
    LET e0 == SkipWS(s, end)
    IN  IF At(s, e0) = "]" THEN Got(PyList(<<>>), e0 + 1)
        ELSE JSONArrayItems(s, e0, <<>>)

\* JSONObject: end is just past the opening quote of the next key
JSONObjectPairs(s, end, acc) ==
    LET key == scanstring(s, end)
        e1 == SkipWS(s, key.end)
        e2 == SkipWS(s, e1 + 1)
        value == scan_once(s, e2)
        e3 == SkipWS(s, value.end)
        nextchar == At(s, e3)
        e4 == SkipWS(s, e3 + 1)
    IN  IF ~key.ok THEN Fail
        ELSE IF At(s, e1) # ":" THEN Fail
        ELSE IF ~value.ok THEN Fail
        ELSE IF nextchar = "}" THEN Got(DictSet(acc, key.v.s, value.v), e3 + 1)
        ELSE IF nextchar # "," THEN Fail
        ELSE IF At(s, e4) # "\"" THEN Fail
        ELSE JSONObjectPairs(s, e4 + 1, DictSet(acc, key.v.s, value.v))

JSONObject(s, end) ==
    LET e0 == SkipWS(s, end)
    IN  IF At(s, e0) = "}" THEN Got(PyDict(<<>>, <<>>), e0 + 1)
        ELSE IF At(s, e0) # "\"" THEN Fail
        ELSE JSONObjectPairs(s, e0 + 1, PyDict(<<>>, <<>>))

scan_once(s, idx) ==
    LET nextchar == At(s, idx)
    IN  IF nextchar = "" THEN Fail
        ELSE IF nextchar = "\"" THEN scanstring(s, idx + 1)
        ELSE IF nextchar = "{" THEN JSONObject(s, idx + 1)
        ELSE IF nextchar = "[" THEN JSONArray(s, idx + 1)
        ELSE IF StartsWith(s, idx, <<"n", "u", "l", "l">>) THEN Got(None, idx + 4)
        ELSE IF StartsWith(s, idx, <<"t", "r", "u", "e">>) THEN Got(PyBool(TRUE), idx + 4)
        ELSE IF StartsWith(s, idx, <<"f", "a", "l", "s", "e">>) THEN Got(PyBool(FALSE), idx + 5)
        ELSE IF match_number(s, idx).ok THEN match_number(s, idx)
        ELSE IF StartsWith(s, idx, <<"N", "a", "N">>) THEN Got(PyFloat(<<"n", "a", "n">>), idx + 3)
        ELSE IF StartsWith(s, idx, <<"I", "n", "f", "i", "n", "i", "t", "y">>)
             THEN Got(PyFloat(<<"i", "n", "f">>), idx + 8)
        ELSE IF StartsWith(s, idx, <<"-", "I", "n", "f", "i", "n", "i", "t", "y">>)
             THEN Got(PyFloat(<<"-", "i", "n", "f">>), idx + 9)
        ELSE Fail

\* json.loads(s): one value, white space around it, nothing else
json_loads(s) ==
    LET obj == scan_once(s, SkipWS(s, 1))
    IN  IF ~obj.ok THEN Fail
        ELSE IF SkipWS(s, obj.end) # Len(s) + 1 THEN Fail
        ELSE obj

(***************************************************************************)
(* What a call does: it returns a value or raises.                         *)
(***************************************************************************)
Returned(v) == [raised |-> FALSE, type |-> "", code |-> 0, msg |-> <<>>, val |-> v]
Raised(type, code, msg) ==
    [raised |-> TRUE, type |-> type, code |-> code, msg |-> msg, val |-> None]

CommandInvokerError(code, msg) == Raised("CommandInvokerError", code, msg)

\* whatever session.get raises: opaque to this program
TransportError == Raised("TransportError", 0, <<>>)

UnableToParse ==
    <<"U", "n", "a", "b", "l", "e", " ", "t", "o", " ", "p", "a", "r", "s", "e", " ",
      "t", "h", "e", " ", "s", "e", "r", "v", "e", "r", "'", "s", " ",
      "r", "e", "s", "p", "o", "n", "s", "e">>

UnknownPrefix ==
    <<"U", "n", "k", "n", "o", "w", "n", " ", "e", "r", "r", "o", "r", " ",
      "o", "c", "c", "u", "r", "r", "e", "d", ".", " ", " ",
      "S", "t", "a", "t", "u", "s", ":", " ", "(">>

UnknownMiddle == <<")", " ", "R", "e", "s", "u", "l", "t", ":", " ">>

StatusOK == <<"O", "K">>
StatusError == <<"E", "r", "r", "o", "r">>

(***************************************************************************)
(* parse_response.  The try block either runs to its end or raises at the  *)
(* first failing statement; `status`, `code` and `result` keep what was    *)
(* assigned before the raise.                                              *)
(***************************************************************************)
\* envelope cutting at the last ':' instead of the first
envelope_last_colon(response_text) ==
    LET hits == {i \in 1..Len(response_text) : response_text[i] = ":"}
        colon == IF hits = {} THEN 0 ELSE Max(hits)
        tokens == split(Slice(response_text, 1, colon - 1))
        status == tokens[1]
        result == strip(Slice(response_text, colon + 1, Len(response_text)))
        parsed == IF Len(tokens) >= 2 THEN int(tokens[2]) ELSE [ok |-> FALSE, n |-> 0]
        failure == [status |-> StatusError, code |-> 1, result |-> UnableToParse]
    IN  IF colon = 0
        THEN [status |-> <<>>, code |-> 1, result |-> <<>>, data_parts |-> failure]
        ELSE IF status = StatusError /\ ~parsed.ok
        THEN [status |-> status, code |-> 1, result |-> result, data_parts |-> failure]
        ELSE LET code == IF status = StatusError THEN parsed.n ELSE 0
             IN  [status |-> status, code |-> code, result |-> result,
                  data_parts |-> [status |-> status, code |-> code, result |-> result]]

\* the locals and data_parts at the end of the try / except of lines 41-55
envelope(response_text) ==
    LET colon == index(response_text, ":")
        tokens == split(Slice(response_text, 1, colon - 1))
        status == tokens[1]
        result == strip(Slice(response_text, colon + 1, Len(response_text)))
        parsed == IF Len(tokens) >= 2 THEN int(tokens[2]) ELSE [ok |-> FALSE, n |-> 0]
        failure == [status |-> StatusError, code |-> 1, result |-> UnableToParse]
    IN  IF colon = 0
        THEN \* index raises on line 43: nothing was assigned
             [status |-> <<>>, code |-> 1, result |-> <<>>, data_parts |-> failure]
        ELSE IF status = StatusError /\ ~parsed.ok
        THEN \* line 46 raises: status and result are already assigned
             [status |-> status, code |-> 1, result |-> result, data_parts |-> failure]
        ELSE LET code == IF status = StatusError THEN parsed.n ELSE 0
             IN  [status |-> status, code |-> code, result |-> result,
                  data_parts |-> [status |-> status, code |-> code, result |-> result]]

\* decode_result giving up the text when it is not JSON
decode_result_none(result) ==
    IF json_loads(result).ok THEN json_loads(result).v ELSE None

\* decode_result never decoding
decode_result_text(result) == PyStr(result)

\* the decoded body of lines 65-69
decode_result(result) ==
    IF json_loads(result).ok THEN json_loads(result).v ELSE PyStr(result)

\* dispatch leaving the status word out of the unknown-status message
dispatch_hides_status(e) ==
    IF e.status = StatusOK THEN Returned(decode_result(e.result))
    ELSE IF e.status = StatusError
    THEN CommandInvokerError(e.data_parts.code, e.data_parts.result)
    ELSE CommandInvokerError(e.code, UnknownPrefix \o UnknownMiddle \o e.data_parts.result)

\* dispatch raising from the locals instead of data_parts
dispatch_uses_locals(e) ==
    IF e.status = StatusOK THEN Returned(decode_result(e.result))
    ELSE IF e.status = StatusError THEN CommandInvokerError(e.code, e.result)
    ELSE CommandInvokerError(e.code,
             UnknownPrefix \o e.data_parts.status \o UnknownMiddle \o e.data_parts.result)

\* the dispatch of lines 56-64 on the local `status`
dispatch(e) ==
    IF e.status = StatusOK THEN Returned(decode_result(e.result))
    ELSE IF e.status = StatusError
    THEN CommandInvokerError(e.data_parts.code, e.data_parts.result)
    ELSE CommandInvokerError(e.code,
             UnknownPrefix \o e.data_parts.status \o UnknownMiddle \o e.data_parts.result)

parse_response(response_text) == dispatch(envelope(response_text))

(***************************************************************************)
(* The response texts parse_response is tried on.  A text is put together  *)
(* from fragments; `parts` remembers the pieces, so that a property can    *)
(* say what the status word, the code and the body of a text are without   *)
(* asking the parser.                                                      *)
(***************************************************************************)
SeqsUpTo(S, n) == UNION {[1..k -> S] : k \in 0..n}

FragOK == <<"O", "K">>
FragError == <<"E", "r", "r", "o", "r">>
FragWARN == <<"W", "A", "R", "N">>
FragSpace == <<" ">>
IntFrags == {<<"1", "2">>, <<"0">>, <<"-", "3">>}
HeadFrags == {FragOK, FragError, FragWARN, FragSpace, <<"x">>, <<"\n">>} \cup IntFrags

BodyFrags ==
    { <<"t", "r", "u", "e">>, <<"1">>, <<"\"", "a", "\"">>, <<"\"">>, <<"[">>, <<"]">>,
      <<"{">>, <<"}">>, <<",">>, <<":">>, <<" ">>, <<"N", "a", "N">>, <<"x">> }

\* a body core has no white space at either end: it is the trimmed body
IsCore(fs) == fs = <<>> \/ (fs[1] # <<" ">> /\ fs[Len(fs)] # <<" ">>)
Cores == {fs \in SeqsUpTo(BodyFrags, MaxBodyFrags) : IsCore(fs)}

FewCores ==
    { <<>>, << <<"B", "a", "d">>, <<" ">>, <<"i", "d">> >>, << <<"a">>, <<":">>, <<"b">> >> }

\* the JSON documents that are generated from a value
Atoms ==
    { None, PyBool(TRUE), PyBool(FALSE), PyInt(0), PyInt(12), PyInt(0 - 3),
      PyStr(<<>>), PyStr(<<"a">>), PyStr(<<"a", ":", "b">>) }
Elems ==
    { None, PyBool(TRUE), PyInt(12), PyStr(<<"a", ":", "b">>),
      PyList(<<>>), PyList(<<PyInt(12)>>), PyDict(<< <<"a">> >>, <<None>>) }
Keys == {<<"a">>, <<"b">>}
DistinctKeys(ks) == \A i, j \in 1..Len(ks) : i # j => ks[i] # ks[j]
JSONValues ==
    Atoms
    \cup {PyList(items) : items \in SeqsUpTo(Elems, MaxItems)}
    \cup UNION { {PyDict(ks, items) : items \in [1..Len(ks) -> Elems]} :
                 ks \in {k \in SeqsUpTo(Keys, MaxItems) : DistinctKeys(k)} }

RECURSIVE NatStr(_)
NatStr(n) ==
    LET d == <<"0", "1", "2", "3", "4", "5", "6", "7", "8", "9">>
    IN  IF n < 10 THEN <<d[n + 1]>> ELSE NatStr(n \div 10) \o <<d[(n % 10) + 1]>>

\* the JSON document of a value; spaced puts a blank after ',' and ':'
RECURSIVE Encode(_, _), EncodeItems(_, _, _)
EncodeItems(v, i, spaced) ==
    IF i > Len(v.items) THEN <<>>
    ELSE (IF i > 1 THEN (IF spaced THEN <<",", " ">> ELSE <<",">>) ELSE <<>>)
         \o (IF v.k = "dict"
             THEN <<"\"">> \o v.keys[i] \o <<"\"">> \o (IF spaced THEN <<":", " ">> ELSE <<":">>)
             ELSE <<>>)
         \o Encode(v.items[i], spaced)
         \o EncodeItems(v, i + 1, spaced)
Encode(v, spaced) ==
    CASE v.k = "None" -> <<"n", "u", "l", "l">>
      [] v.k = "bool" -> IF v.n = 1 THEN <<"t", "r", "u", "e">> ELSE <<"f", "a", "l", "s", "e">>
      [] v.k = "int" -> IF v.n < 0 THEN <<"-">> \o NatStr(0 - v.n) ELSE NatStr(v.n)
      [] v.k = "str" -> <<"\"">> \o v.s \o <<"\"">>
      [] v.k = "list" -> <<"[">> \o EncodeItems(v, 1, spaced) \o <<"]">>
      [] v.k = "dict" -> <<"{">> \o EncodeItems(v, 1, spaced) \o <<"}">>

Part(sweep, colon, head, pad1, core, pad2, value) ==
    [sweep |-> sweep, colon |-> colon, head |-> head, pad1 |-> pad1, core |-> core,
     pad2 |-> pad2, value |-> value]

TextOf(p) ==
    Concat(p.head) \o (IF p.colon THEN <<":">> ELSE <<>>) \o p.pad1 \o Concat(p.core) \o p.pad2

(***************************************************************************)
(* The parser on its own: one response text, one call of parse_response.   *)
(***************************************************************************)
Invocation(action, args, kwargs) == [action |-> action, args |-> args, kwargs |-> kwargs]
NoInvocation == Invocation("", <<>>, <<>>)

MainStart ==
    /\ pc = "idle"
    /\ query_id = None
    /\ token = None
    /\ calls = <<>>
    /\ log = <<>>
    /\ ret = Returned(None)
    /\ replies = <<>>
    /\ inv = NoInvocation

\* the text is one of: every status line, without a ':' or with one and a
\* few bodies; every body under the OK status; every generated JSON document
\* under an OK status line
ParseInit ==
    /\ \/ \E h \in SeqsUpTo(HeadFrags, MaxHeadFrags) :
             parts = Part("head", FALSE, h, <<>>, <<>>, <<>>, None)
       \/ \E h \in SeqsUpTo(HeadFrags, MaxHeadFrags), c \in FewCores :
             parts = Part("head", TRUE, h, <<"\r", "\n">>, c, <<" ">>, None)
       \/ \E p \in {<<>>, <<"\r", "\n">>}, c \in Cores :
             parts = Part("body", TRUE, <<FragOK>>, p, c, p, None)
       \/ \E h \in {<<FragOK>>, <<FragOK, FragSpace, <<"x">> >>},
             p \in {<< <<>>, <<>> >>, << <<"\r", "\n">>, <<" ", "\t">> >>},
             v \in JSONValues, sp \in BOOLEAN :
             parts = Part("json", TRUE, h, p[1], <<Encode(v, sp)>>, p[2], v)
    /\ text = TextOf(parts)
    /\ outcome = Returned(None)
    /\ ppc = "ready"
    /\ MainStart

Parse ==
    /\ ppc = "ready"
    /\ outcome' = parse_response(text)
    /\ ppc' = "parsed"
    /\ UNCHANGED <<parts, text>>
    /\ UNCHANGED mainVars

ParseNext == Parse

ParseSpec == ParseInit /\ [][ParseNext]_vars

(***************************************************************************)
(* main and its closures.  A reply is what session.get does with one       *)
(* request: it raises, or it hands back a response with some text.         *)
(***************************************************************************)
Reply(fails, t) == [fails |-> fails, text |-> t]

ReplyTexts ==
    { <<"O", "K", ":", "\r", "\n", "\"", "t", "o", "k", "1", "2", "3", "\"">>,
      <<"O", "K", ":", "\"", "t", "o", "k", "B", "\"">>,
      <<"O", "K", ":", "n", "u", "l", "l">>,
      <<"O", "K", ":", "\r", "\n", "[", "{", "\"", "a", "\"", ":", "1", "}", "]">>,
      <<"O", "K", ":", "\r", "\n", "p", "l", "a", "i", "n", " ", "t", "e", "x", "t">>,
      <<"E", "r", "r", "o", "r", " ", "1", "2", ":", "\r", "\n", "B", "a", "d", " ",
        "q", "u", "e", "r", "y", " ", "i", "d">>,
      <<"W", "A", "R", "N", ":", "\r", "\n", "s", "o", "m", "e", "t", "h", "i", "n", "g">>,
      <<"<", "h", "t", "m", "l", ">", "5", "0", "2", "<", "/", "h", "t", "m", "l", ">">> }

Replies == {Reply(TRUE, <<>>)} \cup {Reply(FALSE, t) : t \in ReplyTexts}

\* --query_id is optional and defaults to None
QueryIds == {PyStr(<<"q", "1">>), None}

GetSecurityToken == "core.getSecurityToken"
ExecuteQuery == "core.executeQuery"

KeyToken ==
    <<"o", "r", "i", "o", "n", ".", "u", "s", "e", "r", ".", "s", "e", "c", "u", "r", "i", "t", "y",
      ".", "t", "o", "k", "e", "n">>
KeyOutput == <<":", "o", "u", "t", "p", "u", "t">>
KeyTarget == <<"t", "a", "r", "g", "e", "t">>
ParamKey(i) == <<"p", "a", "r", "a", "m">> \o NatStr(i)

NoKwargs == [k \in {} |-> None]

\* {f'param{index}': value for index, value in enumerate(args, start=1)}
pargs(args) ==
    [k \in {ParamKey(i) : i \in 1..Len(args)} |->
        args[CHOOSE i \in 1..Len(args) : ParamKey(i) = k]]

\* url_params with the positional entries written last
url_params_positional_last(tok, args, kwargs) ==
    pargs(args) @@ kwargs @@ (KeyToken :> tok @@ KeyOutput :> PyStr(<<"j", "s", "o", "n">>))

\* the dict display of lines 90-95: a later entry replaces an earlier one
url_params(tok, args, kwargs) ==
    kwargs @@ pargs(args) @@ (KeyToken :> tok @@ KeyOutput :> PyStr(<<"j", "s", "o", "n">>))

Line(by, action, err) == [by |-> by, action |-> action, err |-> err]

\* request passing the credentials with every action
request_always_auth(tok, action, args, kwargs) ==
    [action |-> action,
     params |-> url_params(tok, args, kwargs),
     auth |-> TRUE]

\* request reading no stored token
request_without_token(tok, action, args, kwargs) ==
    [action |-> action,
     params |-> url_params(None, args, kwargs),
     auth |-> action = GetSecurityToken]

\* lines 96-100: the request session.get is called with
request(tok, action, args, kwargs) ==
    [action |-> action,
     params |-> url_params(tok, args, kwargs),
     auth |-> action = GetSecurityToken]

\* lines 98-102: session.get raises, or its response goes to parse_response
result_of(reply) ==
    IF reply.fails THEN TransportError ELSE parse_response(reply.text)

\* run_except raising its own error in place of the one it caught
run_except_wraps(req, result) ==
    [request |-> req,
     outcome |-> IF result.raised THEN CommandInvokerError(1, result.msg) ELSE result,
     lines |-> IF result.raised THEN <<Line("run", req.action, result)>> ELSE <<>>]

\* run_except raising again without printing
run_except_silent(req, result) ==
    [request |-> req, outcome |-> result, lines |-> <<>>]

\* lines 103-106: an exception is printed with the action and raised again
run_except(req, result) ==
    [request |-> req,
     outcome |-> result,
     lines |-> IF result.raised THEN <<Line("run", req.action, result)>> ELSE <<>>]

\* run(action, *args, **kwargs) with the stored token tok, against one reply
run(tok, action, args, kwargs, reply) ==
    run_except(request(tok, action, args, kwargs), result_of(reply))

\* lines 111-113: an exception of run is printed and raised again
get_token_except(r) ==
    [r EXCEPT !.lines =
        IF r.outcome.raised THEN @ \o <<Line("get_token", "", r.outcome)>> ELSE @]

get_token(tok, reply) ==
    get_token_except(run(tok, GetSecurityToken, <<>>, NoKwargs, reply))

list_query_results(tok, qid, reply) ==
    run(tok, ExecuteQuery, <<>>, KeyTarget :> qid, reply)

Call(r) == [action |-> r.request.action, params |-> r.request.params,
            auth |-> r.request.auth, outcome |-> r.outcome]

\* first_authenticate with the exception of get_token leaving main
first_authenticate_fatal(tok, r) ==
    [token |-> IF r.outcome.raised THEN tok ELSE r.outcome.val,
     call |-> Call(r),
     lines |-> IF r.outcome.raised
               THEN r.lines \o <<Line("main", "", r.outcome)>> ELSE r.lines,
     raises |-> r.outcome.raised]

\* lines 115-119 around the call r of get_token: token = get_token(), an
\* exception printed and dropped
first_authenticate(tok, r) ==
    [token |-> IF r.outcome.raised THEN tok ELSE r.outcome.val,
     call |-> Call(r),
     lines |-> IF r.outcome.raised
               THEN r.lines \o <<Line("main", "", r.outcome)>> ELSE r.lines,
     raises |-> FALSE]

\* second_authenticate forgetting the token when get_token raises
second_authenticate_clears(tok, r) ==
    [token |-> IF r.outcome.raised THEN None ELSE tok,
     call |-> Call(r),
     lines |-> r.lines,
     raises |-> r.outcome.raised]

\* second_authenticate with the exception dropped, as in the first one
second_authenticate_swallows(tok, r) ==
    [token |-> tok,
     call |-> Call(r),
     lines |-> r.lines,
     raises |-> FALSE]

\* line 124 around the call r of get_token: get_token() as a statement, its
\* value goes nowhere and an exception leaves main
second_authenticate(tok, r) ==
    [token |-> tok,
     call |-> Call(r),
     lines |-> r.lines,
     raises |-> r.outcome.raised]

Init ==
    /\ parts = Part("none", FALSE, <<>>, <<>>, <<>>, <<>>, None)
    /\ text = <<>>
    /\ outcome = Returned(None)
    /\ ppc = "unused"
    /\ pc = "auth1"
    /\ query_id \in QueryIds
    /\ token = None
    /\ calls = <<>>
    /\ log = <<>>
    /\ ret = Returned(None)
    /\ replies = <<>>
    /\ inv = NoInvocation

Authenticate ==
    /\ pc = "auth1"
    /\ \E reply \in Replies :
          \E a \in {first_authenticate(token, get_token(token, reply))} :
              /\ token' = a.token
              /\ calls' = Append(calls, a.call)
              /\ log' = log \o a.lines
              /\ pc' = IF a.raises THEN "done" ELSE "auth2"
              /\ ret' = IF a.raises THEN a.call.outcome ELSE ret
              /\ replies' = Append(replies, reply)
    /\ UNCHANGED <<query_id, inv, parts, text, outcome, ppc>>

Reauthenticate ==
    /\ pc = "auth2"
    /\ \E reply \in Replies :
          \E a \in {second_authenticate(token, get_token(token, reply))} :
              /\ token' = a.token
              /\ calls' = Append(calls, a.call)
              /\ log' = log \o a.lines
              /\ pc' = IF a.raises THEN "done" ELSE "query"
              /\ ret' = IF a.raises THEN a.call.outcome ELSE ret
              /\ replies' = Append(replies, reply)
    /\ UNCHANGED <<query_id, inv, parts, text, outcome, ppc>>

\* Query sending its request once more after a failure
Query_retries ==
    /\ pc = "query"
    /\ \E reply \in Replies :
          \E r \in {list_query_results(token, query_id, reply)} :
              /\ calls' = Append(calls, Call(r))
              /\ log' = log \o r.lines
              /\ ret' = r.outcome
              /\ replies' = Append(replies, reply)
              /\ pc' = IF r.outcome.raised /\ Len(calls) < 3 THEN "query" ELSE "done"
    /\ UNCHANGED <<token, query_id, inv, parts, text, outcome, ppc>>

Query ==
    /\ pc = "query"
    /\ \E reply \in Replies :
          \E r \in {list_query_results(token, query_id, reply)} :
              /\ calls' = Append(calls, Call(r))
              /\ log' = log \o r.lines
              /\ ret' = r.outcome
              /\ replies' = Append(replies, reply)
    /\ pc' = "done"
    /\ UNCHANGED <<token, query_id, inv, parts, text, outcome, ppc>>

Next == Authenticate \/ Reauthenticate \/ Query

Spec == Init /\ [][Next]_vars

\* main runs to its end: a single thread, nothing to wait for but the reply
FairSpec == Spec /\ WF_vars(Next)

(***************************************************************************)
(* run on its own: one call run(action, *args, **kwargs), or one call of   *)
(* get_token, with some token stored, against one reply.                   *)
(***************************************************************************)
StoredTokens == {None, PyStr(<<"t", "o", "k", "1", "2", "3">>)}
InvokeActions == {GetSecurityToken, ExecuteQuery}
ArgValues == {PyStr(<<"a">>), PyStr(<<"b">>)}
KwargKeys == {KeyTarget, ParamKey(1), KeyToken, KeyOutput}
KwargValues == {PyStr(<<"x">>), PyStr(<<"q", "1">>)}

InvokeInit ==
    /\ parts = Part("none", FALSE, <<>>, <<>>, <<>>, <<>>, None)
    /\ text = <<>>
    /\ outcome = Returned(None)
    /\ ppc = "unused"
    /\ pc = "invoke"
    /\ query_id = None
    /\ token \in StoredTokens
    /\ calls = <<>>
    /\ log = <<>>
    /\ ret = Returned(None)
    /\ replies = <<>>
    /\ \E action \in InvokeActions, args \in SeqsUpTo(ArgValues, MaxArgs),
          keys \in SUBSET KwargKeys :
          \E kwargs \in [keys -> KwargValues] : inv = Invocation(action, args, kwargs)

\* result = run(action, *args, **kwargs)
Invoke ==
    /\ pc = "invoke"
    /\ \E reply \in Replies :
          \E r \in {run(token, inv.action, inv.args, inv.kwargs, reply)} :
              /\ calls' = Append(calls, Call(r))
              /\ log' = log \o r.lines
              /\ ret' = r.outcome
              /\ replies' = Append(replies, reply)
    /\ pc' = "invoked"
    /\ UNCHANGED <<token, query_id, inv, parts, text, outcome, ppc>>

\* result = get_token()
InvokeGetToken ==
    /\ pc = "invoke"
    /\ inv = Invocation(GetSecurityToken, <<>>, <<>>)
    /\ \E reply \in Replies :
          \E r \in {get_token(token, reply)} :
              /\ calls' = Append(calls, Call(r))
              /\ log' = log \o r.lines
              /\ ret' = r.outcome
              /\ replies' = Append(replies, reply)
    /\ pc' = "got_token"
    /\ UNCHANGED <<token, query_id, inv, parts, text, outcome, ppc>>

InvokeNext == Invoke \/ InvokeGetToken

InvokeSpec == InvokeInit /\ [][InvokeNext]_vars

(***************************************************************************)
(* Properties of the workflow.                                             *)
(***************************************************************************)
NCalls == Len(calls)
Succeeded(i) == i <= NCalls /\ ~calls[i].outcome.raised
Failed(i) == i <= NCalls /\ calls[i].outcome.raised
LastCall == calls[NCalls]

\* C1: after every successful authenticate call of the workflow, the first
\* or the second, the stored token equals the value that call returned.
C1_StoredTokenIsReturnedValue ==
    /\ (pc = "auth2" /\ Succeeded(1) => token = calls[1].outcome.val)
    /\ (pc = "query" /\ Succeeded(2) => token = calls[2].outcome.val)

\* C2: whenever the second authenticate succeeds, the token parameter sent
\* with core.executeQuery equals the value the second authenticate returned,
\* also when the first authenticate failed.
C2_QueryCarriesSecondToken ==
    NCalls = 3 /\ calls[3].action = ExecuteQuery /\ Succeeded(2)
        => calls[3].params[KeyToken] = calls[2].outcome.val

\* C3: a failed authenticate call (a transport error or a
\* CommandInvokerError) leaves the stored token as it was before the call.
C3_FailedAuthenticateKeepsToken ==
    [][ (/\ Len(calls') = NCalls + 1
         /\ calls'[NCalls + 1].action = GetSecurityToken
         /\ calls'[NCalls + 1].outcome.raised) => token' = token ]_vars

C3_Witness ==
    /\ NCalls = 2 /\ Failed(2) /\ calls[2].action = GetSecurityToken
    /\ calls[2].outcome.type = "CommandInvokerError"
    /\ token = PyStr(<<"t", "o", "k", "1", "2", "3">>)

\* C4: a failure of the first authenticate is absorbed: main does not end
\* there, and it goes on to issue the second token request.
FirstFailedNow == NCalls = 1 /\ Failed(1)
C4_FirstFailureAbsorbed ==
    /\ [](FirstFailedNow => pc = "auth2" /\ ~ret.raised)
    /\ (FirstFailedNow ~> (NCalls >= 2 /\ calls[2].action = GetSecurityToken))

C4_Witness ==
    NCalls >= 2 /\ Failed(1) /\ calls[2].action = GetSecurityToken

\* C5: a failure of the second authenticate is fatal: its error leaves main
\* and no core.executeQuery request is issued; a core.executeQuery request
\* is only ever sent after a second authenticate that succeeded.
C5_SecondFailureFatal ==
    /\ (Failed(2) => pc = "done" /\ ret = calls[2].outcome /\ NCalls = 2)
    /\ \A i \in 1..NCalls :
          calls[i].action = ExecuteQuery
              => i = 3 /\ calls[2].action = GetSecurityToken /\ Succeeded(2)

C5_Witness ==
    NCalls = 2 /\ Failed(2) /\ pc = "done" /\ ret.raised /\ ret.type = "TransportError"

(***************************************************************************)
(* Properties of parse_response.  What a text is made of is read off       *)
(* `parts`, the record of how it was put together.                         *)
(***************************************************************************)
Parsed == ppc = "parsed"

\* the fragments of the status line's second token: from the third fragment
\* up to the next single space
SecondToken(h) ==
    LET stops == {i \in 3..Len(h) : h[i] = FragSpace}
    IN  Slice(h, 3, IF stops = {} THEN Len(h) ELSE Min(stops) - 1)

\* the token reads as an integer: an integer fragment, more digits, and
\* line breaks around them at most
Newline == <<"\n">>
IsIntegerToken(fs) ==
    LET inner == {i \in 1..Len(fs) : fs[i] # Newline}
    IN  /\ inner # {}
        /\ fs[Min(inner)] \in IntFrags
        /\ \A i \in Min(inner)..Max(inner) :
              i > Min(inner) => fs[i] \in {<<"1", "2">>, <<"0">>}

IntOfFrag(f) ==
    CASE f = <<"1", "2">> -> 12 [] f = <<"0">> -> 0 [] f = <<"-", "3">> -> 0 - 3

StatusWordIs(word) ==
    /\ parts.colon
    /\ Len(parts.head) >= 1
    /\ parts.head[1] = word
    /\ (Len(parts.head) >= 2 => parts.head[2] = FragSpace)

TrimmedBody == Concat(parts.core)

\* C6: a text whose status word is Error followed by a space and an integer
\* N before the first ':' makes parse_response raise CommandInvokerError
\* with code N and the trimmed text after the first ':' as its message.
ErrorWithCode ==
    /\ StatusWordIs(FragError)
    /\ Len(parts.head) >= 3
    /\ Len(SecondToken(parts.head)) = 1
    /\ parts.head[3] \in IntFrags

C6_ErrorCarriesCodeAndMessage ==
    Parsed /\ ErrorWithCode
        => outcome = CommandInvokerError(IntOfFrag(parts.head[3]), TrimmedBody)

C6_Witness ==
    /\ Parsed /\ ErrorWithCode
    /\ parts.head[3] = <<"-", "3">>
    /\ parts.core = << <<"a">>, <<":">>, <<"b">> >>
    /\ outcome.raised /\ outcome.code = 0 - 3

\* C7: a text with no ':' makes parse_response raise CommandInvokerError
\* with code 1 and exactly the message "Unable to parse the server's
\* response".
C7_NoColonIsUnableToParse ==
    Parsed /\ ~parts.colon
        => outcome = CommandInvokerError(1, UnableToParse)

\* C8: a text whose status word is Error and whose status line has no
\* second token, or a second token that is not an integer, makes
\* parse_response raise CommandInvokerError with code 1 and exactly the
\* message "Unable to parse the server's response"; the body is not used.
ErrorWithoutCode ==
    /\ StatusWordIs(FragError)
    /\ ~IsIntegerToken(SecondToken(parts.head))

C8_ErrorWithoutCodeIsUnableToParse ==
    Parsed /\ ErrorWithoutCode => outcome = CommandInvokerError(1, UnableToParse)

C8_Witness ==
    /\ Parsed /\ ErrorWithoutCode
    /\ parts.head = <<FragError, FragSpace, <<"x">> >>
    /\ TrimmedBody # <<>>
    /\ outcome.raised /\ outcome.msg = UnableToParse

RECURSIVE HasConstant(_)
HasConstant(v) ==
    v.k = "float" \/ \E i \in 1..Len(v.items) : HasConstant(v.items[i])

\* the decoder takes the text, and the text is JSON as the standard has it
IsStandardJSON(s) == json_loads(s).ok /\ ~HasConstant(json_loads(s).v)

Contains(s, sub) ==
    \E i \in 1..(Len(s) - Len(sub) + 1) : SubSeq(s, i, i + Len(sub) - 1) = sub

\* the status word as the text was put together: the fragments of the status
\* line before its first single space
StatusWord ==
    LET stops == {i \in 1..Len(parts.head) : parts.head[i] = FragSpace}
    IN  Concat(Slice(parts.head, 1, IF stops = {} THEN Len(parts.head) ELSE Min(stops) - 1))

\* C11: a text with a ':' whose status word is neither OK nor Error makes
\* parse_response raise CommandInvokerError with a message that contains
\* both that status word and the trimmed body.
UnknownStatus ==
    parts.colon /\ parts.sweep = "head" /\ StatusWord # FragOK /\ StatusWord # FragError

C11_UnknownStatusMessageEmbedsBoth ==
    Parsed /\ UnknownStatus
        => /\ outcome.raised
           /\ outcome.type = "CommandInvokerError"
           /\ Contains(outcome.msg, <<"(">> \o StatusWord \o <<")">>)
           /\ Contains(outcome.msg, TrimmedBody)

C11_Witness ==
    /\ Parsed /\ UnknownStatus
    /\ parts.head = <<FragWARN, FragSpace, <<"1", "2">> >>
    /\ parts.core = << <<"B", "a", "d">>, <<" ">>, <<"i", "d">> >>
    /\ outcome.raised

\* C12: a request carries the basic-auth credentials if and only if its
\* action is core.getSecurityToken; in every run of main both token requests
\* carry them and the core.executeQuery request does not.
C12_CredentialsOnlyForTokenAction ==
    /\ \A i \in 1..NCalls : calls[i].auth <=> calls[i].action = GetSecurityToken
    /\ \A i \in 1..NCalls : i <= 2 => calls[i].action = GetSecurityToken /\ calls[i].auth
    /\ NCalls >= 3 => calls[3].action = ExecuteQuery /\ ~calls[3].auth

C12_Witness ==
    NCalls = 3 /\ calls[1].auth /\ calls[2].auth /\ ~calls[3].auth

(***************************************************************************)
(* Properties of run.                                                      *)
(***************************************************************************)
ParamName(i) ==
    CASE i = 1 -> <<"p", "a", "r", "a", "m", "1">>
      [] i = 2 -> <<"p", "a", "r", "a", "m", "2">>
      [] i = 3 -> <<"p", "a", "r", "a", "m", "3">>
      [] i = 4 -> <<"p", "a", "r", "a", "m", "4">>

ParamNames == {ParamName(i) : i \in 1..Len(inv.args)}

\* what a key of the mapping is to hold: the named argument, else the
\* positional one, else the default
ExpectedParam(k) ==
    IF k \in DOMAIN inv.kwargs THEN inv.kwargs[k]
    ELSE IF k \in ParamNames
    THEN inv.args[CHOOSE i \in 1..Len(inv.args) : ParamName(i) = k]
    ELSE IF k = KeyToken THEN token
    ELSE PyStr(<<"j", "s", "o", "n">>)

\* C13: the query parameters sent by a call of run are the defaults
\* {orion.user.security.token: stored token, :output: json}, overlaid by
\* param1..paramN for the positional arguments in call order, overlaid by
\* the named arguments: exactly those keys, the named value winning.
C13_ParamsAreDefaultsPositionalsNamed ==
    pc = "invoked"
        => /\ DOMAIN calls[1].params
                = {KeyToken, KeyOutput} \cup ParamNames \cup DOMAIN inv.kwargs
           /\ \A k \in DOMAIN calls[1].params : calls[1].params[k] = ExpectedParam(k)

C13_Witness ==
    /\ pc = "invoked"
    /\ Len(inv.args) = 2
    /\ DOMAIN inv.kwargs = {ParamName(1), KeyTarget, KeyToken}
    /\ calls[1].params[ParamName(1)] = inv.kwargs[ParamName(1)]
    /\ calls[1].params[ParamName(1)] # inv.args[1]
    /\ calls[1].params[ParamName(2)] = inv.args[2]
    /\ calls[1].params[KeyToken] # token

\* C16: an error raised during a call of run reaches the caller as the same
\* error: a transport error stays a transport error, and a
\* CommandInvokerError of parse_response arrives with its code and message.
Returns == pc \in {"invoked", "got_token"}

C16_ErrorsArriveUnchanged ==
    Returns
        => /\ replies[1].fails => ret.raised /\ ret.type = "TransportError"
           /\ ~replies[1].fails /\ parse_response(replies[1].text).raised
                 => ret = parse_response(replies[1].text)

C16_Witness ==
    /\ pc = "got_token"
    /\ ~replies[1].fails
    /\ ret = CommandInvokerError(12, <<"B", "a", "d", " ", "q", "u", "e", "r", "y", " ", "i", "d">>)

\* C20: a call of run that fails prints a line naming the action before the
\* error reaches its caller, and a call that succeeds prints nothing.
RunLines == {i \in 1..Len(log) : log[i].by = "run"}

C20_FailureIsLoggedWithAction ==
    Returns
        => IF ret.raised
           THEN /\ RunLines = {1}
                /\ log[1].action = inv.action
                /\ log[1].err = ret
           ELSE log = <<>>

C20_Witness ==
    /\ pc = "got_token" /\ ret.raised /\ ret.type = "TransportError"
    /\ Len(log) = 2 /\ log[1].by = "run" /\ log[2].by = "get_token"

(***************************************************************************)
(* Properties of the workflow, continued.                                  *)
(***************************************************************************)
TextTok123 == <<"O", "K", ":", "\r", "\n", "\"", "t", "o", "k", "1", "2", "3", "\"">>
TextTokB == <<"O", "K", ":", "\"", "t", "o", "k", "B", "\"">>
TextNull == <<"O", "K", ":", "n", "u", "l", "l">>
TextRows == <<"O", "K", ":", "\r", "\n", "[", "{", "\"", "a", "\"", ":", "1", "}", "]">>
TextPlain == <<"O", "K", ":", "\r", "\n", "p", "l", "a", "i", "n", " ", "t", "e", "x", "t">>

OKTexts == {TextTok123, TextTokB, TextNull, TextRows, TextPlain}
OKJSONTexts == {TextTok123, TextTokB, TextNull, TextRows}

\* the value each JSON body stands for
ValueOfText(t) ==
    CASE t = TextTok123 -> PyStr(<<"t", "o", "k", "1", "2", "3">>)
      [] t = TextTokB -> PyStr(<<"t", "o", "k", "B">>)
      [] t = TextNull -> None
      [] t = TextRows -> PyList(<<PyDict(<< <<"a">> >>, <<PyInt(1)>>)>>)

OKReply(i, texts) == ~replies[i].fails /\ replies[i].text \in texts

\* C14: when both token requests are answered with an OK envelope and the
\* query request with an OK envelope carrying a JSON body, main returns
\* exactly the decoded JSON value of the query response, whatever the token
\* responses contained.
C14_WorkflowReturnsDecodedQueryBody ==
    pc = "done" /\ NCalls = 3
        /\ OKReply(1, OKTexts) /\ OKReply(2, OKTexts) /\ OKReply(3, OKJSONTexts)
        => ret = Returned(ValueOfText(replies[3].text))

C14_Witness ==
    /\ pc = "done" /\ NCalls = 3
    /\ replies[1] = Reply(FALSE, TextTok123)
    /\ replies[2] = Reply(FALSE, TextPlain)
    /\ replies[3] = Reply(FALSE, TextRows)
    /\ ret = Returned(PyList(<<PyDict(<< <<"a">> >>, <<PyInt(1)>>)>>))

SameRequest(i, j) ==
    /\ calls[i].action = calls[j].action
    /\ calls[i].params = calls[j].params
    /\ calls[i].auth = calls[j].auth

FixedOrder ==
    /\ NCalls <= 3
    /\ \A i \in 1..NCalls :
          calls[i].action = IF i <= 2 THEN GetSecurityToken ELSE ExecuteQuery

\* C15 as stated: at most three requests, in the order token request, token
\* request, business request, and no request that failed is sent again.
C15_FailedRequestNeverSentAgain ==
    /\ FixedOrder
    /\ \A i, j \in 1..NCalls : i < j /\ Failed(i) => ~SameRequest(i, j)

\* C15: at most three requests, in the order token request, token request,
\* business request; every step sends its request once; the second token
\* request is sent whether or not the first failed; a failed second token
\* request or business request is the last request of the run; the only
\* failed request ever followed by an equal one is the first token request.
C15_NoStepIsRepeated ==
    /\ FixedOrder
    /\ pc = CASE NCalls = 0 -> "auth1"
              [] NCalls = 1 -> "auth2"
              [] NCalls = 2 -> IF Failed(2) THEN "done" ELSE "query"
              [] OTHER -> "done"
    /\ \A i, j \in 1..NCalls :
          i < j /\ Failed(i) /\ SameRequest(i, j) => i = 1 /\ j = 2

C15_Witness ==
    /\ pc = "done" /\ NCalls = 3
    /\ Failed(1) /\ SameRequest(1, 2) /\ Succeeded(2) /\ Failed(3)

(***************************************************************************)
(* Properties of parse_response, continued.                                *)
(***************************************************************************)
\* C17: no CommandInvokerError raised by parse_response, for any response
\* text, carries code 0.
C17_NoErrorCarriesCodeZero ==
    Parsed /\ outcome.raised => outcome.code # 0

(***************************************************************************)
(* Properties of the stored token.                                         *)
(***************************************************************************)
\* C18: the stored token is changed only by an authenticate step: a step
\* that sends core.executeQuery, whether it succeeds or fails, leaves the
\* token as it was, and the token parameter of every request equals the
\* token stored when the request is sent.
C18_TokenChangedOnlyByAuthenticate ==
    [][ Len(calls') = NCalls + 1
          => /\ calls'[NCalls + 1].params[KeyToken] = token
             /\ calls'[NCalls + 1].action = ExecuteQuery => token' = token
             /\ token' # token => calls'[NCalls + 1].action = GetSecurityToken ]_vars

C18_Witness ==
    /\ pc = "done" /\ NCalls = 3 /\ Failed(3)
    /\ calls[3].action = ExecuteQuery
    /\ token = PyStr(<<"t", "o", "k", "1", "2", "3">>)
    /\ calls[1].params[KeyToken] = None
    /\ calls[2].params[KeyToken] = token
    /\ calls[3].params[KeyToken] = token

\* C19 as stated: whenever an authenticate call made with an absent token
\* succeeds, the stored token is present afterwards.
C19_SuccessfulAuthenticateStoresToken ==
    /\ pc = "auth2" /\ Succeeded(1) => token # None
    /\ pc = "query" /\ Succeeded(2) /\ calls[2].params[KeyToken] = None => token # None

====
